---------------------------- MODULE Spec2Model ----------------------------
(***************************************************************************)
(* A model of the content-addressable indexing engine of the repository:   *)
(*   src/src/cli/fs/treeitem.rs   TreeItem, TreeItemBuilder, TreeItemDupes *)
(*   src/src/cli/fs/treeindex.rs  TreeIndex, TreeIndexBuilder              *)
(*                                                                         *)
(* One set of variables is shared by several specifications, one for each  *)
(* operation of the engine:                                                *)
(*   SpecList       TreeIndexBuilder::build, TreeIndexFrom::List           *)
(*   Spec           TreeIndexBuilder::build, TreeIndexFrom::Reader         *)
(*   SpecRoundTrip  Display for TreeItemDupes, then the Reader             *)
(*   SpecConfirm    TreeIndexBuilder::build, TreeIndexFrom::Confirm        *)
(*   SpecDigest     TreeItemBuilder::build (the read loop)                 *)
(*   SpecMatch      treetool match                                         *)
(*   SpecFind       treetool dupes find                                    *)
(*   SpecSize       treetool dupes size                                    *)
(*   SpecIo         reader, reader_name, writer, writer_name of cli::io    *)
(*   SpecScan       TreeListBuilder::build                                 *)
(*   SpecOps        match, confirm and find, for what they leave alone     *)
(*   SpecFlat       treetool list output, then the Reader                  *)
(*   SpecDelete     treetool match, then treetool dupes delete             *)
(* A specification leaves the variables of the other operations at their   *)
(* idle values.                                                            *)
(*                                                                         *)
(* Text is modelled character by character: a string is a sequence of      *)
(* one-character strings, a line break is the character "\n".  A TreeIndex *)
(* is a function from its keys to groups [item, dupes]; the iteration      *)
(* order of the HashMap is a nondeterministic choice.                      *)
(***************************************************************************)
EXTENDS Integers, Sequences, FiniteSets, TLC

VARIABLES
    pc,           \* position of the running operation
    with_dupes,   \* TreeIndexBuilder.with_dupes
    ti,           \* the TreeIndex under construction (the local `ti` of build)
    ret,          \* what build returned: NoRet, [tag |-> "Ok", ..] or [tag |-> "Err", ..]
    list,         \* TreeList.list, the input of TreeIndexFrom::List
    li,           \* number of list items the for loop has consumed
    text,         \* every character the Reader's source holds
    rest,         \* the characters the BufReader has not yet returned
    line_count,   \* the local line_count of the Reader arm
    last_digest,  \* the local last_digest of the Reader arm
    src,          \* the TreeIndex handed to Confirm or to the writer
    todo,         \* keys of src the HashMap iteration has not yet visited
    out,          \* the characters written so far
    fs,           \* the filesystem: path -> [kind, size, digest]
    haystack_ti,  \* the second TreeIndex dupes find reads, looked up by digest
    saved,        \* the local size of dupes size: the sum so far
    arg,          \* the Option<PathBuf> handed to a function of cli::io
    q,            \* the work queue of TreeListBuilder::build
    max_size,     \* TreeListBuilder.max_size
    file,         \* the file the Digester reads: [kind, size, flen]
    fast,         \* TreeItemBuilder.fast
    diff,         \* an offset at which a sibling file of equal size differs
    num,          \* the local num of TreeItemBuilder::build
    cursor,       \* the read position of the open File
    fed,          \* the byte ranges passed to hash.update, in order
    complete,     \* no read so far returned fewer bytes than it could
    shorts        \* number of short reads so far

commonVars  == <<pc, with_dupes, ti, ret>>
listVars    == <<list, li>>
readerVars  == <<text, rest, line_count, last_digest>>
indexVars   == <<src, todo, out, fs, haystack_ti, saved, arg, q, max_size>>
digestVars  == <<file, fast, diff, num, cursor, fed, complete, shorts>>
vars == <<commonVars, listVars, readerVars, indexVars, digestVars>>

-----------------------------------------------------------------------------
(* Bounds of the model.                                                    *)

MaxList == 3      \* longest TreeList
MaxLines == 3     \* most lines of an input text
MaxDupes == 2     \* longest duplicate list of an input index
MaxShort == 2     \* most short reads of one digest
MaxFed == 4       \* most offset ranges kept of the bytes fed to one hash

-----------------------------------------------------------------------------
(* TreeItem, TreeItemDupes, TreeIndex.                                     *)

\* Option<PathBuf>
None == [tag |-> "None"]
Some(v) == [tag |-> "Some", val |-> v]

NoRet == [tag |-> "None"]
Ok(v) == [tag |-> "Ok", val |-> v]
Err(e) == [tag |-> "Err", val |-> e]

\* TreeItem::new
TreeItem(digest, path, size) == [digest |-> digest, path |-> path, size |-> size]

\* TreeItemDupes::new
TreeItemDupesNew(digest, path, size) ==
    [item |-> TreeItem(digest, path, size), dupes |-> <<>>]

\* impl From<&TreeItem> for TreeItemDupes
TreeItemDupesFrom(item) == [item |-> item, dupes |-> <<>>]

\* TreeItemDupes::push
Push(group, dupe) == [group EXCEPT !.dupes = Append(@, dupe)]

\* TreeIndex::default
EmptyIndex == <<>>

\* HashMap::insert: a present key is overwritten
Insert(idx, k, group) ==
    [x \in (DOMAIN idx) \cup {k} |-> IF x = k THEN group ELSE idx[x]]

\* ti.idx.get_mut(k) followed by item.push(p)
PushAt(idx, k, p) == [idx EXCEPT ![k] = Push(@, p)]

RECURSIVE SumDupes(_, _)
SumDupes(idx, keys) ==
    IF keys = {} THEN 0
    ELSE LET k == CHOOSE x \in keys : TRUE
         IN  Len(idx[k].dupes) + SumDupes(idx, keys \ {k})

\* TreeIndex::count_dupes
count_dupes(idx) == SumDupes(idx, DOMAIN idx)

\* Sequences over S of length at most n
SeqUpTo(S, n) == UNION {[1..k -> S] : k \in 0..n}

-----------------------------------------------------------------------------
(* The idle values of the variables an operation does not use.             *)

IdleList   == list = <<>> /\ li = 0
IdleReader == text = <<>> /\ rest = <<>> /\ line_count = 0 /\ last_digest = <<>>
IdleIndex  ==
    /\ src = EmptyIndex /\ todo = {} /\ out = <<>> /\ fs = <<>>
    /\ haystack_ti = EmptyIndex /\ saved = 0 /\ arg = None /\ q = <<>> /\ max_size = 0
IdleDigest ==
    /\ file = [kind |-> "none", size |-> 0, flen |-> 0]
    /\ fast = FALSE /\ diff = 0 /\ num = 0 /\ cursor = 0
    /\ fed = <<>> /\ complete = TRUE /\ shorts = 0

-----------------------------------------------------------------------------
(* TreeIndexBuilder::build, TreeIndexFrom::List (treeindex.rs 106-120).    *)

ListDigests == {"A", "B"}
ListPaths == {"p", "q", "r"}
ListSizes == {0, 5}
ListItems == {TreeItem(d, p, s) : d \in ListDigests, p \in ListPaths, s \in ListSizes}

\* a mutant of ListItem: a later record replaces the primary
ListItemReplacing(idx, i, dupes) ==
    Insert(idx, i.digest, TreeItemDupesFrom(i))

\* the body of `for i in &l.list`
ListItem(idx, i, dupes) ==
    IF i.digest \in DOMAIN idx
    THEN IF dupes THEN PushAt(idx, i.digest, i.path) ELSE idx
    ELSE Insert(idx, i.digest, TreeItemDupesFrom(i))

InitList ==
    /\ pc = "list"
    /\ with_dupes \in BOOLEAN
    /\ ti = EmptyIndex
    /\ ret = NoRet
    /\ list \in SeqUpTo(ListItems, MaxList)
    /\ li = 0
    /\ IdleReader /\ IdleIndex /\ IdleDigest

ListStep ==
    /\ pc = "list"
    /\ li < Len(list)
    /\ ti' = ListItem(ti, list[li + 1], with_dupes)
    /\ li' = li + 1
    /\ UNCHANGED <<pc, with_dupes, ret, list, readerVars, indexVars, digestVars>>

ListEnd ==
    /\ pc = "list"
    /\ li = Len(list)
    /\ pc' = "built"
    /\ ret' = Ok(ti)
    /\ UNCHANGED <<with_dupes, ti, listVars, readerVars, indexVars, digestVars>>

NextList == ListStep \/ ListEnd

SpecList == InitList /\ [][NextList]_vars

\* the position of the first record of the list with digest d
FirstAt(d) ==
    CHOOSE i \in 1..Len(list) :
        /\ list[i].digest = d
        /\ \A j \in 1..(i - 1) : list[j].digest # d

\* the paths of the records after the first one with digest d, in list order
LaterPaths(d) ==
    LET SameDigest(r) == r.digest = d
        later == SelectSeq(SubSeq(list, FirstAt(d) + 1, Len(list)), SameDigest)
    IN  [j \in 1..Len(later) |-> later[j].path]

\* C2: building from a ScanList is a merge-by-digest reduction: one group per
\* distinct digest of the list, whose primary is the first record with that
\* digest; with duplicate-tracking the duplicate list is the paths of the later
\* records with that digest in list order (so groups + count_dupes = length of
\* the list), without it every duplicate list is empty.
C2_MergeByDigest ==
    pc = "built" =>
        /\ ret.tag = "Ok"
        /\ DOMAIN ret.val = {list[i].digest : i \in 1..Len(list)}
        /\ \A d \in DOMAIN ret.val :
              /\ ret.val[d].item = list[FirstAt(d)]
              /\ ret.val[d].dupes = IF with_dupes THEN LaterPaths(d) ELSE <<>>
        /\ with_dupes =>
              Cardinality(DOMAIN ret.val) + count_dupes(ret.val) = Len(list)

\* a list with digests A, A, B was built with duplicate-tracking into 2 groups,
\* the A group holding 1 duplicate
C2_Witness ==
    /\ pc = "built"
    /\ with_dupes
    /\ Len(list) = 3
    /\ list[1].digest = "A" /\ list[2].digest = "A" /\ list[3].digest = "B"
    /\ list[1].path # list[2].path
    /\ Cardinality(DOMAIN ret.val) = 2
    /\ ret.val["A"].dupes = <<list[2].path>>


-----------------------------------------------------------------------------
(* Characters, tokens and numbers.                                         *)

\* char::is_whitespace, of the characters the model uses
WhiteSpace == {" ", "\t"}
Digits == <<"0", "1", "2", "3", "4", "5", "6", "7", "8", "9">>
NL == <<"\n">>
SP == <<" ">>
Dash == <<"-">>

\* the part of s from position k (1-based) to its end
From(s, k) == SubSeq(s, k, Len(s))

\* line.find(char::is_whitespace): the 1-based position of the first
\* whitespace character, 0 for None
Find(s) ==
    IF \E i \in 1..Len(s) : s[i] \in WhiteSpace
    THEN CHOOSE i \in 1..Len(s) :
            /\ s[i] \in WhiteSpace
            /\ \A j \in 1..(i - 1) : s[j] \notin WhiteSpace
    ELSE 0

DigitValue(c) == (CHOOSE i \in 1..10 : Digits[i] = c) - 1
IsDigit(c) == \E i \in 1..10 : Digits[i] = c

RECURSIVE DecValue(_)
DecValue(s) ==
    IF s = <<>> THEN 0
    ELSE 10 * DecValue(SubSeq(s, 1, Len(s) - 1)) + DigitValue(s[Len(s)])

\* line.parse::<u64>().unwrap_or(0): decimal digits after an optional "+";
\* anything else parses to 0 (the tokens of the model stay far below 2^64)
ParseU64(s) ==
    LET body == IF s # <<>> /\ s[1] = "+" THEN Tail(s) ELSE s
    IN  IF body # <<>> /\ \A i \in 1..Len(body) : IsDigit(body[i])
        THEN DecValue(body)
        ELSE 0

\* Display for u64
RECURSIVE ToDec(_)
ToDec(n) ==
    IF n < 10 THEN <<Digits[n + 1]>>
    ELSE ToDec(n \div 10) \o <<Digits[(n % 10) + 1]>>

-----------------------------------------------------------------------------
(* The persisted text: Display for TreeItem and for TreeItemDupes.         *)

\* a mutant of FmtItem: the size is written after the path
FmtItemSizeLast(item) ==
    item.digest \o SP \o item.path \o SP \o ToDec(item.size) \o NL

\* impl Display for TreeItem: writeln!(f, "{} {} {}", digest, size, path)
FmtItem(item) ==
    item.digest \o SP \o ToDec(item.size) \o SP \o item.path \o NL

RECURSIVE FmtDupeLines(_)
\* `for d in &self.dupes { writeln!(f, "- {}", path) }`
FmtDupeLines(dupes) ==
    IF dupes = <<>> THEN <<>>
    ELSE Dash \o SP \o Head(dupes) \o NL \o FmtDupeLines(Tail(dupes))

\* impl Display for TreeItemDupes
FmtDupes(group) == FmtItem(group.item) \o FmtDupeLines(group.dupes)

-----------------------------------------------------------------------------
(* TreeIndexBuilder::build, TreeIndexFrom::Reader (treeindex.rs 122-180).  *)

\* BufRead::lines: the next line is what precedes the first "\n" (a "\r"
\* right before that "\n" is dropped too); without a "\n" it is all that is
\* left
NextBreak(s) ==
    IF \E i \in 1..Len(s) : s[i] = "\n"
    THEN CHOOSE i \in 1..Len(s) :
            s[i] = "\n" /\ \A j \in 1..(i - 1) : s[j] # "\n"
    ELSE 0

NextLine(s) ==
    LET k == NextBreak(s)
        raw == IF k = 0 THEN s ELSE SubSeq(s, 1, k - 1)
    IN  IF k # 0 /\ raw # <<>> /\ raw[Len(raw)] = "\r"
        THEN SubSeq(raw, 1, Len(raw) - 1)
        ELSE raw

AfterLine(s) ==
    LET k == NextBreak(s) IN IF k = 0 THEN <<>> ELSE From(s, k + 1)

\* a mutant of InvalidFormat: the line number is 0-based
InvalidFormatZeroBased(what, n) ==
    [kind |-> "InvalidFormat", what |-> what, line |-> n - 1]

\* Error::InvalidFormat(format!("missing ... on line {}", line_count))
InvalidFormat(what, n) ==
    [kind |-> "InvalidFormat", what |-> what, line |-> n]

\* lines 132-158 and 166: the digest token, the size token of a line that is
\* not a dupe line, and the path that is left
ParseLine(line, n) ==
    LET k == Find(line)
        digest == SubSeq(line, 1, k - 1)
        line1 == From(line, k + 1)
        m == Find(line1)
    IN  IF k = 0 THEN Err(InvalidFormat("missing digest", n))
        ELSE IF digest # Dash
        THEN IF m = 0 THEN Err(InvalidFormat("missing size", n))
             ELSE Ok([digest |-> digest,
                      size |-> ParseU64(SubSeq(line1, 1, m - 1)),
                      path |-> From(line1, m + 1)])
        ELSE Ok([digest |-> digest, size |-> 0, path |-> line1])

\* lines 160-164: a dupe line stands for the last digest read
LineDigest(parsed, last) == IF parsed.digest = Dash THEN last ELSE parsed.digest

\* a mutant of ReaderInsert: a known digest's path is pushed whatever the flag
ReaderInsertAlways(idx, digest, parsed, dupes) ==
    IF digest \in DOMAIN idx
    THEN PushAt(idx, digest, parsed.path)
    ELSE Insert(idx, digest, TreeItemDupesNew(digest, parsed.path, parsed.size))

\* a mutant of ReaderInsert: a line with a known digest replaces the group
ReaderInsertReplacing(idx, digest, parsed, dupes) ==
    Insert(idx, digest, TreeItemDupesNew(digest, parsed.path, parsed.size))

\* lines 168-178: look up the digest
ReaderInsert(idx, digest, parsed, dupes) ==
    IF digest \in DOMAIN idx
    THEN IF dupes THEN PushAt(idx, digest, parsed.path) ELSE idx
    ELSE Insert(idx, digest, TreeItemDupesNew(digest, parsed.path, parsed.size))

\* the state of the Reader arm before its loop
ReaderStart(t) ==
    /\ text = t
    /\ rest = t
    /\ line_count = 0
    /\ last_digest = Dash

\* one pass of `for line in r.lines()`
ReadLine ==
    /\ pc = "read"
    /\ rest # <<>>
    /\ LET parsed == ParseLine(NextLine(rest), line_count + 1)
           digest == LineDigest(parsed.val, last_digest)
       IN  /\ line_count' = line_count + 1
           /\ rest' = AfterLine(rest)
           /\ IF parsed.tag = "Err"
              THEN /\ pc' = "failed"
                   /\ ret' = parsed
                   /\ UNCHANGED <<ti, last_digest>>
              ELSE /\ ti' = ReaderInsert(ti, digest, parsed.val, with_dupes)
                   /\ last_digest' = digest
                   /\ UNCHANGED <<pc, ret>>
    /\ UNCHANGED <<with_dupes, text, listVars, indexVars, digestVars>>

\* the loop is over: Ok(ti)
ReadEnd ==
    /\ pc = "read"
    /\ rest = <<>>
    /\ pc' = "loaded"
    /\ ret' = Ok(ti)
    /\ UNCHANGED <<with_dupes, ti, listVars, readerVars, indexVars, digestVars>>

\* the input texts: up to MaxLines lines, each ended by a line break
DigestA == <<"a">>
DigestB == <<"b">>
PathX == <<"x">>
PathYZ == <<"y", " ", "z">>

InputLines ==
    {FmtItem(TreeItem(d, p, 12)) : d \in {DigestA, DigestB}, p \in {PathX, PathYZ}}
    \cup {FmtItem(TreeItem(DigestA, PathX, 0))}
    \cup {Dash \o SP \o p \o NL : p \in {PathX, PathYZ}}
    \cup {NL,                                   \* an empty line
          <<"a", "\n">>,                        \* a digest and nothing else
          <<"a", " ", "x", "\n">>,              \* a digest and one more token
          <<"-", "\n">>,                        \* a dash and nothing else
          <<"a", " ", " ", "x", "\n">>,         \* an empty size token
          <<" ", "1", "2", " ", "x", "\n">>}    \* an empty digest token

RECURSIVE Concat(_)
Concat(ss) == IF ss = <<>> THEN <<>> ELSE Head(ss) \o Concat(Tail(ss))

InputTexts == {Concat(ls) : ls \in SeqUpTo(InputLines, MaxLines)}

Init ==
    /\ pc = "read"
    /\ with_dupes \in BOOLEAN
    /\ ti = EmptyIndex
    /\ ret = NoRet
    /\ \E t \in InputTexts : ReaderStart(t)
    /\ IdleList /\ IdleIndex /\ IdleDigest

Next == ReadLine \/ ReadEnd

Spec == Init /\ [][Next]_vars

(* The lines of the input, told from the text itself.                      *)

\* the positions of the line breaks of the text
Breaks == {i \in 1..Len(text) : text[i] = "\n"}
NumLines == Cardinality(Breaks)

\* the position of the n-th line break, 0 for n = 0
BreakAt(n) ==
    IF n = 0 THEN 0
    ELSE CHOOSE i \in Breaks : Cardinality({j \in Breaks : j <= i}) = n

\* the n-th line of the text (1-based), without its line break
LineAt(n) == SubSeq(text, BreakAt(n - 1) + 1, BreakAt(n) - 1)

\* no whitespace delimits a digest token
NoDigestToken(l) == \A i \in 1..Len(l) : l[i] \notin WhiteSpace

\* a dupe line: the token "-", then whitespace
IsDupeLine(l) == Len(l) >= 2 /\ l[1] = "-" /\ l[2] \in WhiteSpace

\* a primary line whose digest token is followed by no whitespace-delimited
\* size token
NoSizeToken(l) ==
    /\ ~NoDigestToken(l)
    /\ ~IsDupeLine(l)
    /\ \E k \in 1..Len(l) :
          /\ l[k] \in WhiteSpace
          /\ \A j \in 1..Len(l) : j # k => l[j] \notin WhiteSpace

Malformed(l) == NoDigestToken(l) \/ NoSizeToken(l)
BadLines == {n \in 1..NumLines : Malformed(LineAt(n))}
FirstBad == CHOOSE n \in BadLines : \A m \in BadLines : n <= m

\* C9: deserialization fails with an invalid-format error naming the 1-based
\* number of the first line that has no whitespace-delimited digest token, or
\* is a primary line with no whitespace-delimited size token, as soon as it has
\* read that line; it returns no index then and processes no later line; a
\* text without such a line never fails.
C9_FormatError ==
    /\ ret.tag = "Err" =>
          /\ BadLines # {}
          /\ ret.val.kind = "InvalidFormat"
          /\ ret.val.line = FirstBad
          /\ ret.val.what = IF NoDigestToken(LineAt(FirstBad))
                            THEN "missing digest" ELSE "missing size"
    /\ ret.tag = "Ok" => BadLines = {}
    /\ BadLines # {} => line_count <= FirstBad
    /\ (BadLines # {} /\ line_count = FirstBad) => (pc = "failed" /\ ret.tag = "Err")
    /\ (pc = "loaded") => (ret.tag = "Ok" /\ line_count = NumLines)

\* the second of three lines is malformed: the error names line 2 and the
\* third line is never read
C9_Witness ==
    /\ pc = "failed"
    /\ NumLines = 3
    /\ ret.tag = "Err"
    /\ ret.val.line = 2
    /\ line_count = 2
    /\ rest # <<>>

\* the primary lines among the first n lines of the text
PrimariesUpTo(n) == {i \in 1..n : ~Malformed(LineAt(i)) /\ ~IsDupeLine(LineAt(i))}

\* the digest token of the last primary line among the first n lines
LastPrimaryDigest(n) ==
    LET i == CHOOSE x \in PrimariesUpTo(n) : \A y \in PrimariesUpTo(n) : y <= x
        l == LineAt(i)
        k == CHOOSE x \in 1..Len(l) :
                l[x] \in WhiteSpace /\ \A j \in 1..(x - 1) : l[j] \notin WhiteSpace
    IN  SubSeq(l, 1, k - 1)

NoDupesIn(idx) == \A k \in DOMAIN idx : idx[k].dupes = <<>>

\* the Reader has just read line n, a dupe line, without failing
ReadsDupeLine(n) ==
    /\ pc = "read"
    /\ pc' = "read"
    /\ n = line_count + 1
    /\ line_count' = n
    /\ IsDupeLine(LineAt(n))

\* C10: reading a line "- <path>" that follows a primary line appends <path>
\* to the duplicate list of the group of the most recently read primary line's
\* digest when duplicate-tracking is enabled; when it is disabled the line
\* changes no group, so that every duplicate list of the index stays empty.
C10_DupeLine ==
    [][ /\ \A n \in 1..NumLines :
            ReadsDupeLine(n) =>
                LET path == From(LineAt(n), 3)
                    d == LastPrimaryDigest(n)
                IN  IF with_dupes
                    THEN PrimariesUpTo(n) # {} =>
                            /\ d \in DOMAIN ti
                            /\ ti' = [ti EXCEPT ![d].dupes = Append(@, path)]
                    ELSE /\ \A k \in DOMAIN ti : k \in DOMAIN ti' /\ ti'[k] = ti[k]
                         /\ PrimariesUpTo(n) # {} => ti' = ti
        /\ ~with_dupes => NoDupesIn(ti')
      ]_vars

\* with duplicate-tracking, a dupe line after a primary line was read and its
\* path is the last duplicate of that primary line's group
C10_Witness ==
    /\ with_dupes
    /\ pc = "read"
    /\ line_count = 2
    /\ ~Malformed(LineAt(1)) /\ ~IsDupeLine(LineAt(1))
    /\ IsDupeLine(LineAt(2))
    /\ LastPrimaryDigest(1) \in DOMAIN ti
    /\ ti[LastPrimaryDigest(1)].dupes = <<From(LineAt(2), 3)>>

-----------------------------------------------------------------------------
(* Writing an index and reading it back: the loop                          *)
(* `for item in ti.idx.into_values() { write!(w, "{}", item)?; }` of the   *)
(* commands (examples/treetool/src/main.rs 268-272), then the Reader.      *)

DigestB1 == <<"b", "1">>
PathDash == <<"-", " ", "1">>
RtDigests == {DigestA, DigestB1}
RtPaths == {PathX, PathYZ, PathDash}
RtSizes == {0, 12}

\* the groups an index holds under key k
RtGroups(k) ==
    {[item |-> TreeItem(k, p, s), dupes |-> ds] :
        p \in RtPaths, s \in RtSizes, ds \in SeqUpTo(RtPaths, MaxDupes)}

\* the indexes of the data model: every group is stored under the digest of
\* its primary record
RtIndexes ==
    UNION {{f \in [S -> UNION {RtGroups(k) : k \in S}] :
                \A k \in S : f[k].item.digest = k} : S \in SUBSET RtDigests}

InitRoundTrip ==
    /\ pc = "write"
    /\ with_dupes = TRUE
    /\ ti = EmptyIndex
    /\ ret = NoRet
    /\ src \in RtIndexes
    /\ todo = DOMAIN src
    /\ out = <<>>
    /\ fs = <<>>
    /\ haystack_ti = EmptyIndex /\ saved = 0 /\ arg = None /\ q = <<>> /\ max_size = 0
    /\ IdleList /\ IdleReader /\ IdleDigest

\* into_values() yields the groups in any order; one group is written
WriteGroup(k) ==
    /\ pc = "write"
    /\ k \in todo
    /\ out' = out \o FmtDupes(src[k])
    /\ todo' = todo \ {k}
    /\ UNCHANGED <<commonVars, listVars, readerVars, src, fs, haystack_ti, saved, arg, q, max_size, digestVars>>

\* all groups are written; the text is handed to a Reader
WriteEnd ==
    /\ pc = "write"
    /\ todo = {}
    /\ pc' = "read"
    /\ text' = out
    /\ rest' = out
    /\ line_count' = 0
    /\ last_digest' = Dash
    /\ UNCHANGED <<with_dupes, ti, ret, listVars, indexVars, digestVars>>

NextRoundTrip ==
    \/ \E k \in todo : WriteGroup(k)
    \/ WriteEnd
    \/ ReadLine
    \/ ReadEnd

SpecRoundTrip == InitRoundTrip /\ [][NextRoundTrip]_vars

\* C1: round trip.  Writing every group of an index (a primary line, then one
\* "- <path>" line per duplicate in stored order), the groups in any order, and
\* reading the text back with duplicate-tracking yields an index with the same
\* keys, primary records and duplicate sequences.
C1_RoundTrip ==
    (pc = "loaded" /\ with_dupes) => ret = Ok(src)

\* an index of two groups, one with two duplicates and a path holding a space,
\* was written and read back
C1_Witness ==
    /\ pc = "loaded"
    /\ with_dupes
    /\ Cardinality(DOMAIN src) = 2
    /\ src[DigestA].dupes = <<PathYZ, PathX>>
    /\ src[DigestB1].item.path = PathDash
    /\ ret = Ok(src)

-----------------------------------------------------------------------------
(* TreeIndexBuilder::build, TreeIndexFrom::Confirm (treeindex.rs 182-225). *)
(*                                                                         *)
(* The filesystem gives each path its state when Confirm runs: no file, or *)
(* a regular file with its size and the digest a full-mode                 *)
(* TreeItemBuilder returns for it.  The input index is what an earlier     *)
(* run wrote: its keys may be fast-mode digests, and the files may have    *)
(* changed since.                                                          *)

ConfirmDigests == {"a", "b"}
ConfirmPaths == {"x", "y"}
ConfirmSizes == {0, 5}
EmptyDigest == "e"      \* the digest of a file of no bytes

NoFile == [kind |-> "none", size |-> 0, digest |-> "-"]
RegularFile(size, digest) == [kind |-> "file", size |-> size, digest |-> digest]

FileStates ==
    {NoFile, RegularFile(0, EmptyDigest)}
    \cup {RegularFile(5, d) : d \in ConfirmDigests}

FileSystems == [ConfirmPaths -> FileStates]

ConfirmGroups(k) ==
    {[item |-> TreeItem(k, p, s), dupes |-> ds] :
        p \in ConfirmPaths, s \in ConfirmSizes,
        ds \in SeqUpTo(ConfirmPaths, MaxDupes)}

\* the indexes the Reader can hand to Confirm
ConfirmInputs ==
    UNION {{f \in [S -> UNION {ConfirmGroups(k) : k \in S}] :
                \A k \in S : f[k].item.digest = k} : S \in SUBSET ConfirmDigests}

\* TreeItemBuilder::new().fast(false).path(p).build(): NotAFile unless the
\* path is a regular file, else the full digest and the size of the file
BuildItem(f, p) ==
    IF f[p].kind # "file"
    THEN Err([kind |-> "NotAFile", path |-> p])
    ELSE Ok(TreeItem(f[p].digest, p, f[p].size))

\* lines 200-203: fs::metadata(p) gives the length, a failure gives 0
MetadataLen(f, p) == IF f[p].kind = "none" THEN 0 ELSE f[p].size

\* a mutant of ConfirmDupe: the size test is inverted
ConfirmDupeSizeInverted(acc, group, p, f) ==
    IF MetadataLen(f, p) # group.item.size
    THEN LET dupe == BuildItem(f, p)
         IN  IF dupe.tag = "Err" THEN Ok(acc)
             ELSE IF dupe.val.digest \in DOMAIN acc
             THEN Ok(PushAt(acc, dupe.val.digest, dupe.val.path))
             ELSE Ok(acc)
    ELSE Ok(acc)

\* lines 197-223, one pass of `for p in &i.dupes`: the new index, or the
\* error the `?` of the dupe's build returns
ConfirmDupe(acc, group, p, f) ==
    IF MetadataLen(f, p) = group.item.size
    THEN LET dupe == BuildItem(f, p)
         IN  IF dupe.tag = "Err" THEN dupe
             ELSE IF dupe.val.digest \in DOMAIN acc
             THEN Ok(PushAt(acc, dupe.val.digest, dupe.val.path))
             ELSE Ok(acc)
    ELSE Ok(acc)

RECURSIVE ConfirmDupes(_, _, _, _)
\* `for p in &i.dupes`, from the j-th duplicate on
ConfirmDupes(acc, group, j, f) ==
    IF j > Len(group.dupes) THEN Ok(acc)
    ELSE LET r == ConfirmDupe(acc, group, group.dupes[j], f)
         IN  IF r.tag = "Err"
             THEN Err([kind |-> r.val.kind, path |-> r.val.path, at |-> "dupe"])
             ELSE ConfirmDupes(r.val, group, j + 1, f)

\* lines 184-224, one pass of `for (d, i) in i.idx.iter()`; the field `at` of
\* an error records which build returned it
ConfirmGroup(acc, d, group, f) ==
    LET item == BuildItem(f, group.item.path)
    IN  IF item.tag = "Err"
        THEN Err([kind |-> item.val.kind, path |-> item.val.path, at |-> "primary"])
        ELSE ConfirmDupes(Insert(acc, d, TreeItemDupesFrom(item.val)), group, 1, f)

InitConfirm ==
    /\ pc = "confirm"
    /\ with_dupes = FALSE
    /\ ti = EmptyIndex
    /\ ret = NoRet
    /\ src \in ConfirmInputs
    /\ todo = DOMAIN src
    /\ out = <<>>
    /\ fs \in FileSystems
    /\ haystack_ti = EmptyIndex /\ saved = 0 /\ arg = None /\ q = <<>> /\ max_size = 0
    /\ IdleList /\ IdleReader /\ IdleDigest

\* the iteration visits one more group of the input, in any order
ConfirmStep(d) ==
    /\ pc = "confirm"
    /\ d \in todo
    /\ todo' = todo \ {d}
    /\ LET r == ConfirmGroup(ti, d, src[d], fs)
       IN  IF r.tag = "Err"
           THEN pc' = "failed" /\ ret' = r /\ ti' = ti
           ELSE pc' = pc /\ ret' = ret /\ ti' = r.val
    /\ UNCHANGED <<with_dupes, listVars, readerVars, src, out, fs, haystack_ti, saved, arg, q, max_size, digestVars>>

\* every group is visited: Ok(ti)
ConfirmEnd ==
    /\ pc = "confirm"
    /\ todo = {}
    /\ pc' = "confirmed"
    /\ ret' = Ok(ti)
    /\ UNCHANGED <<with_dupes, ti, listVars, readerVars, indexVars, digestVars>>

NextConfirm == (\E d \in todo : ConfirmStep(d)) \/ ConfirmEnd

SpecConfirm == InitConfirm /\ [][NextConfirm]_vars

\* C3: in every index, the digest of a group's primary record is the key the
\* group is stored under; for Confirm also when the keys of its input are
\* fast-mode digests or a primary file changed since the input was written.
C3_KeyIsPrimaryDigest ==
    /\ \A k \in DOMAIN src : src[k].item.digest = k
    /\ \A k \in DOMAIN ti : ti[k].item.digest = k

\* the duplicate paths an index holds
AllDupePaths(idx) ==
    UNION {{idx[k].dupes[j] : j \in 1..Len(idx[k].dupes)} : k \in DOMAIN idx}

\* C4: Confirm monotonicity.  Every duplicate path of the confirmed index is a
\* duplicate path of the input, the confirmed index counts no more duplicates
\* than the input, and a duplicate of the input is in no group of the
\* confirmed index only if its current size differs from the recorded size of
\* its primary or its full digest does not match the key it was recorded
\* under.
C4_ConfirmMonotone ==
    pc = "confirmed" =>
        /\ AllDupePaths(ret.val) \subseteq AllDupePaths(src)
        /\ count_dupes(ret.val) <= count_dupes(src)
        /\ \A d \in DOMAIN src : \A j \in 1..Len(src[d].dupes) :
              LET p == src[d].dupes[j]
              IN  p \notin AllDupePaths(ret.val) =>
                      \/ MetadataLen(fs, p) # src[d].item.size
                      \/ fs[p].digest # d

\* Confirm kept one duplicate of a group and dropped another one
C4_Witness ==
    /\ pc = "confirmed"
    /\ \E d \in DOMAIN src :
          /\ Len(src[d].dupes) = 2
          /\ d \in DOMAIN ret.val
          /\ Len(ret.val[d].dupes) = 1
          /\ AllDupePaths(src) # AllDupePaths(ret.val)

\* C5: after Confirm every duplicate is proven: the full digest of the file of
\* each duplicate path equals the full digest of the group's primary file, the
\* digest stored in the group's primary record.
C5_DupesProven ==
    pc = "confirmed" =>
        \A k \in DOMAIN ret.val : \A j \in 1..Len(ret.val[k].dupes) :
            /\ fs[ret.val[k].dupes[j]].kind = "file"
            /\ fs[ret.val[k].dupes[j]].digest = ret.val[k].item.digest
            /\ fs[ret.val[k].item.path].digest = ret.val[k].item.digest

\* C6: a duplicate candidate whose metadata lookup fails, or whose size is not
\* the recorded size of its primary, is dropped alone: Confirm never fails
\* because of it, whatever the recorded size.
C6_SizeCheckDropsOnly ==
    pc = "failed" =>
        ~(ret.val.at = "dupe" /\ fs[ret.val.path].kind = "none")

-----------------------------------------------------------------------------
(* TreeItemBuilder::build (treeitem.rs 71-114): the digest of one file.    *)
(* The hash is a function of the bytes it is fed, in order; the model      *)
(* keeps the fed bytes as the sequence of the offset ranges [lo, hi) they  *)
(* came from, contiguous ranges joined, and stands for the digest by it.   *)

\* let mut buf = [0; 1_048_576]
BufLen == 1048576
\* (size > 1_048_576)
FastThreshold == 1048576
\* SeekFrom::Start(size-1_048_575)
TailLen == 1048575

DigestPath == "f"

\* a mutant of SeekTarget: the tail starts one buffer before the end
SeekTargetWholeBuf(size) == size - BufLen

\* line 103: the position the read cursor is moved to in fast mode
SeekTarget(size) == size - TailLen

\* a mutant of SkipsMiddle: the threshold is inclusive
SkipsMiddleInclusive(f, n, size) == f /\ (n < size) /\ (size >= FastThreshold)

\* line 102: the test that moves the cursor to the tail
SkipsMiddle(f, n, size) == f /\ (n < size) /\ (size > FastThreshold)

\* hash.update(&buf[0..n]) on the n bytes read at offset lo
Feed(stream, lo, n) ==
    IF n = 0 THEN stream
    ELSE IF stream # <<>> /\ stream[Len(stream)].hi = lo
    THEN [stream EXCEPT ![Len(stream)].hi = lo + n]
    ELSE Append(stream, [lo |-> lo, hi |-> lo + n])

\* the bytes f.read(&mut buf) returns at offset c when nothing cuts it short
FullRead(f, c) ==
    LET available == IF f.flen > c THEN f.flen - c ELSE 0
    IN  IF available < BufLen THEN available ELSE BufLen

\* a read may return fewer bytes than the buffer holds and the file has
ShortLens == {1, 524288}

ReadLens(f, c, k) ==
    {FullRead(f, c)} \cup {n \in ShortLens : n < FullRead(f, c) /\ k < MaxShort}

\* the sizes metadata reports, around the buffer length and twice of it
DigestSizes ==
    {0, 1, BufLen - 1, BufLen, BufLen + 1,
     2 * BufLen - 1, 2 * BufLen, 2 * BufLen + 1, 3 * BufLen}

\* a file: what is_file and File::open make of the path, the size metadata
\* reports and the bytes the file holds while it is read
DigestFiles ==
    {f \in [kind : {"file", "none", "unreadable"}, size : DigestSizes,
            flen : DigestSizes \cup {n - 1 : n \in DigestSizes \ {0}}] :
        /\ f.flen \in {f.size, f.size - 1}
        /\ (f.kind = "none" => f.size = 0 /\ f.flen = 0)}

\* the offsets at which a second file of the same size is taken to differ
ProbeOffsets(size) ==
    IF size = 0 THEN {0}
    ELSE {o \in {0, BufLen - 1, BufLen, size - BufLen - 1, size - BufLen,
                 size - TailLen, size - 1} : 0 <= o /\ o < size}

InitDigest ==
    /\ pc = "digest"
    /\ with_dupes = FALSE
    /\ ti = EmptyIndex
    /\ ret = NoRet
    /\ file \in DigestFiles
    /\ fast \in BOOLEAN
    /\ diff \in ProbeOffsets(file.size)
    /\ num = 0 /\ cursor = 0 /\ fed = <<>>
    /\ complete = TRUE /\ shorts = 0
    /\ IdleList /\ IdleReader /\ IdleIndex

\* lines 73-87: is_file, metadata, File::open
DigestOpen ==
    /\ pc = "digest"
    /\ IF file.kind = "none"
       THEN pc' = "failed" /\ ret' = Err([kind |-> "NotAFile", path |-> DigestPath])
       ELSE IF file.kind = "unreadable"
       THEN pc' = "failed" /\ ret' = Err([kind |-> "IoError", at |-> "open"])
       ELSE pc' = "loop" /\ ret' = ret
    /\ UNCHANGED <<with_dupes, ti, listVars, readerVars, indexVars, digestVars>>

\* line 88: `while num < size` holds, the body is entered
DigestTest ==
    /\ pc = "loop"
    /\ num < file.size
    /\ pc' = "body"
    /\ UNCHANGED <<with_dupes, ti, ret, listVars, readerVars, indexVars, digestVars>>

\* lines 89-110: the body of the loop, its read and seek succeeding or its
\* seek failing; of the fed bytes the first MaxFed ranges are kept
DigestRead ==
    /\ pc = "body"
    /\ \E n \in ReadLens(file, cursor, shorts) : \E seekOk \in BOOLEAN :
          LET read == num + n
          IN  /\ fed' = IF Len(fed) < MaxFed THEN Feed(fed, cursor, n) ELSE fed
              /\ shorts' = IF n < FullRead(file, cursor) THEN shorts + 1 ELSE shorts
              /\ complete' = (complete /\ n = FullRead(file, cursor))
              /\ IF SkipsMiddle(fast, read, file.size)
                 THEN IF seekOk
                      THEN /\ num' = SeekTarget(file.size)
                           /\ cursor' = SeekTarget(file.size)
                           /\ pc' = "loop" /\ ret' = ret
                      ELSE /\ num' = read /\ cursor' = cursor + n
                           /\ pc' = "failed"
                           /\ ret' = Err([kind |-> "IoError", at |-> "seek"])
                 ELSE /\ seekOk
                      /\ num' = read /\ cursor' = cursor + n
                      /\ pc' = "loop" /\ ret' = ret
    /\ UNCHANGED <<with_dupes, ti, listVars, readerVars, indexVars, file, fast, diff>>

\* lines 89-95: the read fails
DigestReadFails ==
    /\ pc = "body"
    /\ pc' = "failed"
    /\ ret' = Err([kind |-> "IoError", at |-> "read"])
    /\ UNCHANGED <<with_dupes, ti, listVars, readerVars, indexVars, digestVars>>

\* lines 112-113: the loop is left, the digest is that of the fed bytes
DigestFinish ==
    /\ pc = "loop"
    /\ ~(num < file.size)
    /\ pc' = "done"
    /\ ret' = Ok(TreeItem(fed, DigestPath, file.size))
    /\ UNCHANGED <<with_dupes, ti, listVars, readerVars, indexVars, digestVars>>

NextDigest ==
    DigestOpen \/ DigestTest \/ DigestRead \/ DigestReadFails \/ DigestFinish

SpecDigest == InitDigest /\ [][NextDigest]_vars

\* the code runs on: the test, the body and the return of a started digest
\* are taken when they can be; a failing read or seek is up to the system
SpecDigestFair ==
    /\ SpecDigest
    /\ WF_vars(DigestOpen) /\ WF_vars(DigestTest)
    /\ WF_vars(DigestRead) /\ WF_vars(DigestFinish)

\* the byte at offset o is among the fed bytes
Covers(stream, o) ==
    \E i \in 1..Len(stream) : stream[i].lo <= o /\ o < stream[i].hi

\* the whole file, once, in order
WholeFile(size) == IF size = 0 THEN <<>> ELSE <<[lo |-> 0, hi |-> size]>>

C8_SmallFilesAlike ==
    pc = "done" =>
        ((~fast \/ file.size <= 1048576) =>
            ret = Ok(TreeItem(WholeFile(file.size), DigestPath, file.size)))

\* a file of exactly 1 MiB is digested in fast mode, a read coming up short
C8_Witness ==
    /\ pc = "done" /\ fast /\ ~complete
    /\ file.size = 1048576
    /\ ret.val.size = 1048576

-----------------------------------------------------------------------------
(* treetool match (main.rs 281-305): the haystack index is read without    *)
(* duplicates, the tree is scanned up to the largest primary size, and the *)
(* scanned records are pushed into the index that was read.  src keeps the *)
(* index as it was read.                                                    *)

MatchDigests == {"A", "B", "C"}

\* TreeIndex::max
max(idx) ==
    IF DOMAIN idx = {} THEN 0
    ELSE CHOOSE m \in {idx[k].item.size : k \in DOMAIN idx} :
             \A k \in DOMAIN idx : idx[k].item.size <= m

\* the indexes a read without duplicate tracking returns
Haystacks ==
    UNION {{[k \in K |-> TreeItemDupesFrom(TreeItem(k, pf[k], sf[k]))] :
               pf \in [K -> ListPaths], sf \in [K -> ListSizes]} :
           K \in SUBSET ListDigests}

\* the lists a scan bounded by m returns: every file once, none larger than m
ScanLists(m) ==
    {l \in SeqUpTo({TreeItem(d, p, s) : d \in MatchDigests, p \in ListPaths,
                                        s \in {z \in ListSizes : z <= m}}, MaxList) :
        \A i, j \in 1..Len(l) : i # j => l[i].path # l[j].path}

\* a mutant of MatchItem: a record with an unknown digest starts a group
MatchItemInserting(idx, i) ==
    IF i.digest \in DOMAIN idx
    THEN PushAt(idx, i.digest, i.path)
    ELSE Insert(idx, i.digest, TreeItemDupesFrom(i))

\* a mutant of MatchItem: the scanned record takes the place of the primary
MatchItemReplacing(idx, i) ==
    IF i.digest \in DOMAIN idx
    THEN Insert(idx, i.digest, Push(TreeItemDupesFrom(i), idx[i.digest].item.path))
    ELSE idx

\* lines 299-304: the body of `for i in tl.list`
MatchItem(idx, i) ==
    IF i.digest \in DOMAIN idx
    THEN PushAt(idx, i.digest, i.path)
    ELSE idx

InitMatch ==
    /\ pc = "match"
    /\ with_dupes = FALSE
    /\ src \in Haystacks
    /\ ti = src
    /\ ret = NoRet
    /\ list \in ScanLists(max(src))
    /\ li = 0
    /\ todo = {} /\ out = <<>> /\ fs = <<>>
    /\ haystack_ti = EmptyIndex /\ saved = 0 /\ arg = None /\ q = <<>> /\ max_size = 0
    /\ IdleReader /\ IdleDigest

MatchStep ==
    /\ pc = "match"
    /\ li < Len(list)
    /\ ti' = MatchItem(ti, list[li + 1])
    /\ li' = li + 1
    /\ UNCHANGED <<pc, with_dupes, ret, list, readerVars, indexVars, digestVars>>

\* the list is used up: the index goes to the output loop
MatchEnd ==
    /\ pc = "match"
    /\ li = Len(list)
    /\ pc' = "matched"
    /\ ret' = Ok(ti)
    /\ UNCHANGED <<with_dupes, ti, listVars, readerVars, indexVars, digestVars>>

NextMatch == MatchStep \/ MatchEnd

SpecMatch == InitMatch /\ [][NextMatch]_vars

\* the paths of the records of the list with digest d, in list order
PathsAt(d) ==
    LET SameDigest(r) == r.digest = d
        same == SelectSeq(list, SameDigest)
    IN  [j \in 1..Len(same) |-> same[j].path]

\* C11: match-against-tree.  The result has exactly the keys and primary
\* records of the duplicate-free haystack; the duplicate list of a key is the
\* paths of all scanned records with that digest in list order; records whose
\* digest is no key add nothing and raise no error.
C11_MatchAgainstTree ==
    pc = "matched" =>
        /\ ret.tag = "Ok"
        /\ DOMAIN ret.val = DOMAIN src
        /\ \A k \in DOMAIN src :
              /\ ret.val[k].item = src[k].item
              /\ ret.val[k].dupes = PathsAt(k)

\* two records matched the key A and one record had a digest that is no key
C11_Witness ==
    /\ pc = "matched"
    /\ "A" \in DOMAIN src
    /\ Len(ret.val["A"].dupes) = 2
    /\ \E i \in 1..Len(list) : list[i].digest \notin DOMAIN src

-----------------------------------------------------------------------------
(* treetool dupes find (main.rs 389-412): src is needle_ti, read without   *)
(* duplicates; haystack_ti is read with duplicates; ti is the new index.   *)

FindPaths == {"p", "q"}
FindSize == 5

\* the needle indexes: no group has duplicates
Needles ==
    UNION {{[k \in K |-> TreeItemDupesFrom(TreeItem(k, pf[k], FindSize))] :
               pf \in [K -> FindPaths]} :
           K \in SUBSET ListDigests}

\* the groups a haystack holds under key k; the key C is never a needle's
FindGroups(k) ==
    {[item |-> TreeItem(k, p, FindSize), dupes |-> ds] :
        p \in FindPaths,
        ds \in SeqUpTo(FindPaths, IF k = "C" THEN 0 ELSE MaxDupes)}

FindHaystacks ==
    UNION {{h \in [K -> UNION {FindGroups(k) : k \in K}] :
               \A k \in K : h[k] \in FindGroups(k)} :
           K \in SUBSET MatchDigests}

\* lines 399-406: `for i in haystack_item.dupes.iter()` from position j on
RECURSIVE FindDupes(_, _, _)
FindDupes(item, dupes, j) ==
    IF j > Len(dupes) THEN item
    ELSE FindDupes(IF item.item.path # dupes[j] THEN Push(item, dupes[j]) ELSE item,
                   dupes, j + 1)

\* a mutant of FindItem: the haystack's duplicates are pushed unfiltered
FindItemUnfiltered(idx, digest, needle_item, hay) ==
    IF digest \in DOMAIN hay /\ needle_item.item.path # hay[digest].item.path
    THEN Insert(idx, digest,
                [needle_item EXCEPT
                    !.dupes = @ \o <<hay[digest].item.path>> \o hay[digest].dupes])
    ELSE idx

\* lines 391-411: the body of `for (digest, needle_item) in needle_ti.idx.iter()`
FindItem(idx, digest, needle_item, hay) ==
    IF digest \in DOMAIN hay
    THEN LET haystack_item == hay[digest]
         IN  IF needle_item.item.path # haystack_item.item.path
             THEN Insert(idx, digest,
                         FindDupes(Push(needle_item, haystack_item.item.path),
                                   haystack_item.dupes, 1))
             ELSE idx
    ELSE idx

InitFind ==
    /\ pc = "find"
    /\ with_dupes = FALSE
    /\ src \in Needles
    /\ haystack_ti \in FindHaystacks
    /\ saved = 0 /\ arg = None /\ q = <<>> /\ max_size = 0
    /\ todo = DOMAIN src
    /\ ti = EmptyIndex
    /\ ret = NoRet
    /\ out = <<>> /\ fs = <<>>
    /\ IdleList /\ IdleReader /\ IdleDigest

\* the iteration visits one more group of the needle, in any order
FindStep(digest) ==
    /\ pc = "find"
    /\ digest \in todo
    /\ todo' = todo \ {digest}
    /\ ti' = FindItem(ti, digest, src[digest], haystack_ti)
    /\ UNCHANGED <<pc, with_dupes, ret, listVars, readerVars, src, out, fs,
                   haystack_ti, saved, arg, q, max_size, digestVars>>

\* every group is visited: the index goes to the output loop
FindEnd ==
    /\ pc = "find"
    /\ todo = {}
    /\ pc' = "found"
    /\ ret' = Ok(ti)
    /\ UNCHANGED <<with_dupes, ti, listVars, readerVars, indexVars, digestVars>>

NextFind == (\E digest \in todo : FindStep(digest)) \/ FindEnd

SpecFind == InitFind /\ [][NextFind]_vars

\* C12: cross-index find.  The result has a group for digest d exactly when d
\* is a key of the needle and of the haystack and their primary paths differ;
\* its primary is the needle's record, its duplicate list is the haystack's
\* primary path followed by the haystack's duplicate paths other than the
\* needle's primary path, in the haystack's order; so no group of the result
\* lists its own primary path as a duplicate.
C12_CrossIndexFind ==
    pc = "found" =>
        /\ ret.tag = "Ok"
        /\ DOMAIN ret.val =
              {d \in DOMAIN src \cap DOMAIN haystack_ti :
                  src[d].item.path # haystack_ti[d].item.path}
        /\ \A d \in DOMAIN ret.val :
              LET NotNeedle(p) == p # src[d].item.path
              IN  /\ ret.val[d].item = src[d].item
                  /\ ret.val[d].dupes =
                        <<haystack_ti[d].item.path>>
                            \o SelectSeq(haystack_ti[d].dupes, NotNeedle)
                  /\ \A j \in 1..Len(ret.val[d].dupes) :
                        ret.val[d].dupes[j] # ret.val[d].item.path

\* a group was built whose haystack lists the needle's primary path among its
\* duplicates, while another key of the needle has no group
C12_Witness ==
    /\ pc = "found"
    /\ \E d \in DOMAIN ret.val :
          /\ \E j \in 1..Len(haystack_ti[d].dupes) :
                haystack_ti[d].dupes[j] = src[d].item.path
          /\ Len(ret.val[d].dupes) = 2
    /\ DOMAIN ret.val # DOMAIN src

-----------------------------------------------------------------------------
(* treetool dupes size (main.rs 466-484).  The sums of the model stay      *)
(* below 2^31, far from the u64 range of the local size.                   *)

MaxCount == 3     \* most duplicates of one group of a summed index

\* the primary sizes of the summed groups
SizeSizes == {0, 1024, 524288, 150000000}
SizePath == "q"

SizeGroups(k) ==
    {[item |-> TreeItem(k, "p", s), dupes |-> [j \in 1..n |-> SizePath]] :
        s \in SizeSizes, n \in 0..MaxCount}

SizeInputs ==
    UNION {{i \in [K -> UNION {SizeGroups(k) : k \in K}] :
               \A k \in K : i[k] \in SizeGroups(k)} :
           K \in SUBSET MatchDigests}

\* size >> n
ShiftRight(v, n) == v \div (2 ^ n)

\* writeln!(w, "Total saved {} <unit>", v)
SizeLine(v, unit) == <<"Total saved ">> \o ToDec(v) \o <<" ", unit, "\n">>

\* a mutant of SizeReport: the thresholds are inclusive
SizeReportInclusive(total) ==
    IF total >= 1024 * 1024 * 1024 THEN SizeLine(ShiftRight(total, 30), "GB")
    ELSE IF total >= 1024 * 1024 THEN SizeLine(ShiftRight(total, 20), "MB")
    ELSE IF total >= 1024 THEN SizeLine(ShiftRight(total, 10), "KB")
    ELSE SizeLine(total, "Bytes")

\* lines 476-484: the line written for a total
SizeReport(total) ==
    IF total > 1024 * 1024 * 1024 THEN SizeLine(ShiftRight(total, 30), "GB")
    ELSE IF total > 1024 * 1024 THEN SizeLine(ShiftRight(total, 20), "MB")
    ELSE IF total > 1024 THEN SizeLine(ShiftRight(total, 10), "KB")
    ELSE SizeLine(total, "Bytes")

InitSize ==
    /\ pc = "size"
    /\ with_dupes = TRUE
    /\ src \in SizeInputs
    /\ todo = DOMAIN src
    /\ saved = 0 /\ arg = None /\ q = <<>> /\ max_size = 0
    /\ ti = EmptyIndex
    /\ ret = NoRet
    /\ out = <<>> /\ fs = <<>> /\ haystack_ti = EmptyIndex
    /\ IdleList /\ IdleReader /\ IdleDigest

\* lines 468-472: one group is added to the sum
SizeStep(k) ==
    /\ pc = "size"
    /\ k \in todo
    /\ todo' = todo \ {k}
    /\ LET dupe_size == src[k].item.size * Len(src[k].dupes)
       IN  saved' = saved + dupe_size
    /\ UNCHANGED <<commonVars, listVars, readerVars, src, out, fs, haystack_ti,
                   arg, q, max_size, digestVars>>

\* lines 475-484: the total is written
SizeEnd ==
    /\ pc = "size"
    /\ todo = {}
    /\ out' = SizeReport(saved)
    /\ pc' = "sized"
    /\ UNCHANGED <<with_dupes, ti, ret, listVars, readerVars, src, todo, fs,
                   haystack_ti, saved, arg, q, max_size, digestVars>>

NextSize == (\E k \in todo : SizeStep(k)) \/ SizeEnd

SpecSize == InitSize /\ [][NextSize]_vars

\* the sum over the groups with keys in K of primary size times duplicates
RECURSIVE Reclaimable(_, _)
Reclaimable(idx, K) ==
    IF K = {} THEN 0
    ELSE LET k == CHOOSE x \in K : TRUE
         IN  idx[k].item.size * Len(idx[k].dupes) + Reclaimable(idx, K \ {k})

\* the index is one group with primary size 1024 and 3 duplicates
OneGroup1024x3 ==
    /\ Cardinality(DOMAIN src) = 1
    /\ \A k \in DOMAIN src : src[k].item.size = 1024 /\ Len(src[k].dupes) = 3

\* C13 as stated: the total is the sum of primary size times number of
\* duplicates; one group of size 1024 with 3 duplicates is reported as 3072
\* Bytes; a total past 1 MiB and not past 1 GiB is reported as total >> 20 MB.
C13_AsStated ==
    pc = "sized" =>
        LET total == Reclaimable(src, DOMAIN src)
        IN  /\ saved = total
            /\ OneGroup1024x3 =>
                  out = <<"Total saved ", "3", "0", "7", "2", " ", "Bytes", "\n">>
            /\ (total > 1048576 /\ total <= 1073741824) =>
                  out = SizeLine(total \div 1048576, "MB")

\* C13, amended: the total is the sum of primary size times number of
\* duplicates and is reported truncated in the largest unit whose threshold
\* (1024, 1024^2, 1024^3) it exceeds; one group of size 1024 with 3 duplicates
\* is reported as 3 KB, Bytes being used for totals up to 1024 only.
C13_SizeReport ==
    pc = "sized" =>
        LET total == Reclaimable(src, DOMAIN src)
        IN  /\ saved = total
            /\ OneGroup1024x3 =>
                  out = <<"Total saved ", "3", " ", "KB", "\n">>
            /\ total > 1073741824 =>
                  out = SizeLine(total \div 1073741824, "GB")
            /\ (total > 1048576 /\ total <= 1073741824) =>
                  out = SizeLine(total \div 1048576, "MB")
            /\ (total > 1024 /\ total <= 1048576) =>
                  out = SizeLine(total \div 1024, "KB")
            /\ total <= 1024 => out = SizeLine(total, "Bytes")

\* one group of size 1024 with 3 duplicates was summed and reported
C13_Witness ==
    /\ pc = "sized"
    /\ OneGroup1024x3
    /\ saved = 3072

-----------------------------------------------------------------------------
(* cli::io (io.rs 13-25, 55-66, 71-89): the reader and the writer of an    *)
(* optional path argument, and their names.                                *)

IoPaths == {"-", "f", "g"}

\* a path that can neither be opened nor created
Denied == [kind |-> "denied", size |-> 0, digest |-> "-"]

IoFileSystems == [IoPaths -> {NoFile, RegularFile(5, "a"), Denied}]

IoArgs == {None} \cup {Some(p) : p \in IoPaths}

Stdin == [stream |-> "stdin"]
Stdout == [stream |-> "stdout"]
FileStream(p) == [stream |-> "file", path |-> p]
IoError(p) == Err([kind |-> "IoError", path |-> p])

\* lines 13-25
reader(a, f) ==
    IF a.tag = "Some"
    THEN IF a.val = "-" THEN Ok(Stdin)
         ELSE IF f[a.val].kind = "file" THEN Ok(FileStream(a.val))
         ELSE IoError(a.val)
    ELSE Ok(Stdin)

\* lines 55-66
reader_name(a) ==
    IF a.tag = "Some"
    THEN IF a.val = "-" THEN Ok("stdin") ELSE Ok(a.val)
    ELSE Ok("stdin")

\* lines 71-79
writer(a, f) ==
    IF a.tag = "Some"
    THEN IF f[a.val].kind # "denied" THEN Ok(FileStream(a.val))
         ELSE IoError(a.val)
    ELSE Ok(Stdout)

\* File::create in line 75: the file exists and is empty afterwards
Created(a, f) ==
    IF a.tag = "Some" /\ f[a.val].kind # "denied"
    THEN [f EXCEPT ![a.val] = RegularFile(0, EmptyDigest)]
    ELSE f

\* lines 82-89
writer_name(a) ==
    IF a.tag = "Some" THEN Ok(a.val) ELSE Ok("stdout")

InitIo ==
    /\ pc = "io"
    /\ with_dupes = FALSE
    /\ ti = EmptyIndex
    /\ ret = NoRet
    /\ arg \in IoArgs
    /\ q = <<>> /\ max_size = 0
    /\ fs \in IoFileSystems
    /\ src = EmptyIndex /\ todo = {} /\ out = <<>>
    /\ haystack_ti = EmptyIndex /\ saved = 0
    /\ IdleList /\ IdleReader /\ IdleDigest

IoFrame ==
    UNCHANGED <<with_dupes, ti, listVars, readerVars, src, todo, out,
                haystack_ti, saved, arg, q, max_size, digestVars>>

CallReader ==
    /\ pc = "io"
    /\ pc' = "reader"
    /\ ret' = reader(arg, fs)
    /\ fs' = fs
    /\ IoFrame

CallReaderName ==
    /\ pc = "io"
    /\ pc' = "reader_name"
    /\ ret' = reader_name(arg)
    /\ fs' = fs
    /\ IoFrame

CallWriter ==
    /\ pc = "io"
    /\ pc' = "writer"
    /\ ret' = writer(arg, fs)
    /\ fs' = Created(arg, fs)
    /\ IoFrame

CallWriterName ==
    /\ pc = "io"
    /\ pc' = "writer_name"
    /\ ret' = writer_name(arg)
    /\ fs' = fs
    /\ IoFrame

NextIo == CallReader \/ CallReaderName \/ CallWriter \/ CallWriterName

SpecIo == InitIo /\ [][NextIo]_vars

\* the argument is absent or the literal -
IsStd(a) == a = None \/ a = Some("-")

\* C14: reader/writer resolution is uniform.  For the reader and the writer
\* alike an argument that is absent or the literal - resolves to the standard
\* stream and any other value to that path as a file, and reader_name and
\* writer_name report the standard stream in exactly the same cases.
C14_UniformResolution ==
    /\ pc = "reader" =>
          IF IsStd(arg) THEN ret = Ok(Stdin)
          ELSE ret \in {Ok(FileStream(arg.val)), IoError(arg.val)}
    /\ pc = "writer" =>
          IF IsStd(arg) THEN ret = Ok(Stdout)
          ELSE ret \in {Ok(FileStream(arg.val)), IoError(arg.val)}
    /\ pc = "reader_name" => (ret = Ok("stdin") <=> IsStd(arg))
    /\ pc = "writer_name" => (ret = Ok("stdout") <=> IsStd(arg))

-----------------------------------------------------------------------------
(* TreeListBuilder::build (treelist.rs 53-93): the scan of a directory     *)
(* tree.  fs is the tree below the root: the root holds a and d, d holds b *)
(* and e, e holds c; an entry is absent, a directory, a regular file or    *)
(* something else.  The tree is finite and holds no links.                 *)

\* max_size: u64::MAX, capped to the integers of the model; every size is below
DefaultMax == 2147483647

Root == "/"
ScanNodes == {"a", "b", "c", "d", "e"}
Parent(n) == IF n \in {"a", "d"} THEN Root ELSE IF n \in {"b", "e"} THEN "d" ELSE "e"
Depth(n) == IF n \in {"a", "d"} THEN 1 ELSE IF n \in {"b", "e"} THEN 2 ELSE 3

Absent == [kind |-> "absent", size |-> 0, lookup |-> "ok", build |-> "ok"]
Other == [kind |-> "other", size |-> 0, lookup |-> "ok", build |-> "ok"]
Directory == [kind |-> "dir", size |-> 0, lookup |-> "ok", build |-> "ok"]

\* a regular file: its size, whether the fs::metadata of the scan succeeds on
\* it, and whether its digest can be built
ScanFiles(builds) ==
    {[kind |-> "file", size |-> s, lookup |-> l, build |-> b] :
        s \in {0, 5, 7}, l \in {"ok", "fails"}, b \in builds} \
    {f \in [kind : {"file"}, size : {0, 5}, lookup : {"fails"}, build : builds] : TRUE}

IsDir(t, n) == n = Root \/ t[n].kind = "dir"

Trees ==
    {t \in [ScanNodes -> {Absent, Other, Directory} \cup ScanFiles({"ok", "fails"})] :
        /\ t["a"].kind # "dir"
        /\ t["d"].kind # "other" /\ t["d"].build = "ok"
        /\ t["e"] \in {Absent, Directory}
        /\ t["b"].kind \in {"absent", "file"} /\ t["b"].build = "ok"
        /\ t["c"].kind \in {"absent", "file"} /\ t["c"].build = "ok"
        /\ \A n \in {"b", "c", "e"} : ~IsDir(t, Parent(n)) => t[n] = Absent}

\* the entries fs::read_dir(d) yields
Entries(t, d) == {n \in ScanNodes : Parent(n) = d /\ t[n].kind # "absent"}

\* the orders read_dir may yield them in
Orders(S) ==
    {o \in [1..Cardinality(S) -> S] : \A i, j \in 1..Cardinality(S) : i # j => o[i] # o[j]}

Scan(d) == [work |-> "Scan", path |-> d]
Digest(f) == [work |-> "Digest", path |-> f]

\* lines 73-76: the size the scan takes a file to have
LookupSize(e) == IF e.lookup = "ok" THEN e.size ELSE 0

\* a mutant of ScanEntry: the bound is exclusive
ScanEntryExclusive(t, n, m) ==
    IF t[n].kind = "dir" THEN <<Scan(n)>>
    ELSE IF t[n].kind = "file"
    THEN IF LookupSize(t[n]) < m THEN <<Digest(n)>> ELSE <<>>
    ELSE <<>>

\* lines 69-80: what one entry of a directory adds to the back of the queue
ScanEntry(t, n, m) ==
    IF t[n].kind = "dir" THEN <<Scan(n)>>
    ELSE IF t[n].kind = "file"
    THEN IF LookupSize(t[n]) <= m THEN <<Digest(n)>> ELSE <<>>
    ELSE <<>>

\* lines 67-81: `for entry in diter` from position j on
RECURSIVE ScanEntries(_, _, _, _)
ScanEntries(t, o, j, m) ==
    IF j > Len(o) THEN <<>>
    ELSE ScanEntry(t, o[j], m) \o ScanEntries(t, o, j + 1, m)

\* a mutant of Pop: the queue is a stack
PopBack(queue) ==
    [work |-> queue[Len(queue)], rest |-> SubSeq(queue, 1, Len(queue) - 1)]

\* line 62: q.pop_front()
Pop(queue) == [work |-> Head(queue), rest |-> Tail(queue)]

\* the digest of the file at a path; its value plays no part in the scan
ScanDigest == "A"

\* the haystacks whose max() bounds the scan of treetool match
ScanHaystacks ==
    {h \in Haystacks : \A k \in DOMAIN h : h[k].item.path = "p"}

InitScan ==
    /\ pc = "scan"
    /\ with_dupes = FALSE
    /\ ti = EmptyIndex
    /\ ret = NoRet
    /\ fs \in Trees
    /\ src \in ScanHaystacks
    /\ max_size \in {max(src)} \cup (IF src = EmptyIndex THEN {DefaultMax} ELSE {})
    /\ q = <<Scan(Root)>>
    /\ list = <<>> /\ li = 0
    /\ todo = {} /\ out = <<>> /\ haystack_ti = EmptyIndex /\ saved = 0
    /\ arg = None
    /\ IdleReader /\ IdleDigest

ScanFrame ==
    UNCHANGED <<with_dupes, ti, li, readerVars, src, todo, out, fs, haystack_ti,
                saved, arg, max_size, digestVars>>

\* lines 64-82: a directory is read and its entries are queued
ScanDir ==
    /\ pc = "scan"
    /\ q # <<>>
    /\ Pop(q).work.work = "Scan"
    /\ \E o \in Orders(Entries(fs, Pop(q).work.path)) :
          q' = Pop(q).rest \o ScanEntries(fs, o, 1, max_size)
    /\ UNCHANGED <<pc, ret, list>>
    /\ ScanFrame

\* lines 83-88: a file is digested and its record pushed, or the scan fails
ScanFile ==
    /\ pc = "scan"
    /\ q # <<>>
    /\ Pop(q).work.work = "Digest"
    /\ LET f == Pop(q).work.path
       IN  IF fs[f].build = "ok"
           THEN /\ list' = Append(list, TreeItem(ScanDigest, f, fs[f].size))
                /\ q' = Pop(q).rest
                /\ UNCHANGED <<pc, ret>>
           ELSE /\ pc' = "failed"
                /\ ret' = Err([kind |-> "IoError", path |-> f])
                /\ q' = Pop(q).rest
                /\ list' = list
    /\ ScanFrame

\* line 92: the queue is empty, Ok(tl)
ScanEnd ==
    /\ pc = "scan"
    /\ q = <<>>
    /\ pc' = "scanned"
    /\ ret' = Ok(list)
    /\ UNCHANGED <<list, q>>
    /\ ScanFrame

NextScan == ScanDir \/ ScanFile \/ ScanEnd

SpecScan == InitScan /\ [][NextScan]_vars

\* every directory from the root down to the entry n is a directory
RECURSIVE UnderRoot(_)
UnderRoot(n) ==
    /\ fs[n].kind # "absent"
    /\ Parent(n) = Root \/ (fs[Parent(n)].kind = "dir" /\ UnderRoot(Parent(n)))

\* the regular files under the root
RegularFiles == {n \in ScanNodes : fs[n].kind = "file" /\ UnderRoot(n)}

\* those whose size, as the scan looks it up, is within the bound
Eligible == {n \in RegularFiles : LookupSize(fs[n]) <= max_size}

\* the files digested so far or queued to be
Digested ==
    {list[i].path : i \in 1..Len(list)}
        \cup {q[i].path : i \in {j \in 1..Len(q) : q[j].work = "Digest"}}

\* C15: scanner size bound and completeness.  A successful scan with bound M
\* returns exactly one record for every regular file under the root whose
\* size is at most M, a file whose metadata lookup fails counting as size 0;
\* no file whose size is above M is ever digested; with the default bound
\* every regular file is digested; with M the max() of a haystack no file
\* larger than every primary of the haystack is digested.
C15_ScanBound ==
    /\ pc = "scanned" =>
          /\ ret.tag = "Ok"
          /\ Len(ret.val) = Cardinality(Eligible)
          /\ {ret.val[i].path : i \in 1..Len(ret.val)} = Eligible
          /\ max_size = DefaultMax =>
                {ret.val[i].path : i \in 1..Len(ret.val)} = RegularFiles
    /\ \A f \in Digested : LookupSize(fs[f]) <= max_size
    /\ (src # EmptyIndex /\ max_size = max(src)) =>
          \A f \in Digested :
              \E k \in DOMAIN src : LookupSize(fs[f]) <= src[k].item.size

\* a scan bounded by 5 returned the record of a file whose lookup failed and
\* left out a file of size 7
C15_Witness ==
    /\ pc = "scanned"
    /\ max_size = 5
    /\ \E i \in 1..Len(list) : fs[list[i].path].lookup = "fails"
    /\ \E n \in RegularFiles : fs[n].size = 7 /\ n \notin Digested
    /\ Len(list) >= 2

-----------------------------------------------------------------------------
(* Confirm, match and dupes find together: what each does to the index it  *)
(* is given.  Confirm borrows src and builds ti; dupes find borrows src    *)
(* and haystack_ti and builds ti; match owns the index it read, ti, and    *)
(* pushes into it.                                                         *)

InitOps == InitConfirm \/ InitMatch \/ InitFind

NextOps ==
    \/ \E d \in todo : ConfirmStep(d)
    \/ ConfirmEnd
    \/ MatchStep
    \/ MatchEnd
    \/ \E digest \in todo : FindStep(digest)
    \/ FindEnd

SpecOps == InitOps /\ [][NextOps]_vars

\* s is the beginning of t
IsPrefix(s, t) == Len(s) <= Len(t) /\ SubSeq(t, 1, Len(s)) = s

-----------------------------------------------------------------------------
\* C17: digest termination.  Once started, the read loop of the Digester
\* always ends, returning a record or failing with an error, in full and in
\* fast mode, for every size, also when reads come up short and when the file
\* holds fewer bytes than the size metadata gave.
C17_DigestTerminates == <>(pc \in {"done", "failed"})

-----------------------------------------------------------------------------
\* the paths of the Digest tasks of a queue, in queue order
RECURSIVE DigestPaths(_)
DigestPaths(queue) ==
    IF queue = <<>> THEN <<>>
    ELSE (IF Head(queue).work = "Digest" THEN <<Head(queue).path>> ELSE <<>>)
             \o DigestPaths(Tail(queue))

\* the files recorded so far followed by the files queued to be digested
DigestOrder == [i \in 1..Len(list) |-> list[i].path] \o DigestPaths(q)

\* C18: the scanner works its queue first-in-first-out, one task at a time,
\* from the single scan-root task.  Each step takes the task at the front and
\* adds tasks at the back only; the records are pushed in the order their
\* digest tasks were queued; a record of a file at depth d comes before every
\* record of a deeper file; the queue is empty when the scan returns its list.
C18_ScanFifo ==
    /\ q = <<Scan(Root)>> /\ list = <<>>
    /\ [](\A i, j \in 1..Len(DigestOrder) :
              i < j => Depth(DigestOrder[i]) <= Depth(DigestOrder[j]))
    /\ [](pc = "scanned" => (q = <<>> /\ ret = Ok(list)))
    /\ [][pc = "scan" /\ pc' = "scan" =>
             /\ IsPrefix(Tail(q), q')
             /\ IsPrefix(DigestOrder, DigestOrder')
             /\ Len(list') <= Len(list) + 1
             /\ Len(list') = Len(list) + 1 =>
                   (Head(q) = Digest(list'[Len(list')].path) /\ q' = Tail(q))]_vars

\* a scan returned the records of files at depth 1, 2 and 3
C18_Witness ==
    /\ pc = "scanned"
    /\ Len(list) = 3
    /\ Depth(list[1].path) = 1 /\ Depth(list[2].path) = 2 /\ Depth(list[3].path) = 3
    /\ q = <<>>

-----------------------------------------------------------------------------
(* treetool list (main.rs 247-250) written and read back: the flat text of *)
(* a TreeList goes through TreeIndexFrom::Reader.                          *)

\* the records of a written list: digests and paths are character sequences,
\* the paths hold no line break
FlatItems ==
    {TreeItem(d, p, s) : d \in {DigestA, DigestB}, p \in {PathX, PathYZ}, s \in RtSizes}

InitFlat ==
    /\ pc = "flat"
    /\ with_dupes \in BOOLEAN
    /\ ti = EmptyIndex
    /\ ret = NoRet
    /\ list \in SeqUpTo(FlatItems, MaxList)
    /\ li = 0
    /\ IdleReader /\ IdleIndex /\ IdleDigest

\* lines 248-250: one record is written
FlatWrite ==
    /\ pc = "flat"
    /\ li < Len(list)
    /\ out' = out \o FmtItem(list[li + 1])
    /\ li' = li + 1
    /\ UNCHANGED <<commonVars, list, readerVars, src, todo, fs, haystack_ti, saved,
                   arg, q, max_size, digestVars>>

\* the list is written; the text is handed to a Reader
FlatEnd ==
    /\ pc = "flat"
    /\ li = Len(list)
    /\ pc' = "read"
    /\ text' = out
    /\ rest' = out
    /\ line_count' = 0
    /\ last_digest' = Dash
    /\ UNCHANGED <<with_dupes, ti, ret, listVars, indexVars, digestVars>>

NextFlat == FlatWrite \/ FlatEnd \/ ReadLine \/ ReadEnd

SpecFlat == InitFlat /\ [][NextFlat]_vars

\* TreeIndexFrom::List on the first n records of l
RECURSIVE FromList(_, _, _)
FromList(l, n, dupes) ==
    IF n = 0 THEN EmptyIndex
    ELSE ListItem(FromList(l, n - 1, dupes), l[n], dupes)

\* C19: deserialization merges as building from a ScanList does.  Reading the
\* flat text of a list, one primary line per record, with duplicate-tracking
\* flag f gives the index building from the list with flag f gives: a second
\* primary line with a seen digest becomes a duplicate of the first, or is
\* discarded without the flag, and never replaces the primary.
C19_ReadAsBuilt ==
    /\ pc # "failed"
    /\ pc = "loaded" => ret = Ok(FromList(list, Len(list), with_dupes))

\* a list whose first and third record share a digest was written and read
\* with duplicate tracking: the third is a duplicate of the first
C19_Witness ==
    /\ pc = "loaded"
    /\ with_dupes
    /\ Len(list) = 3
    /\ list[1].digest = list[3].digest /\ list[2].digest # list[1].digest
    /\ list[1].path # list[3].path
    /\ ret.val[list[1].digest] = [item |-> list[1], dupes |-> <<list[3].path>>]

-----------------------------------------------------------------------------
\* Confirm on the groups of idx visited in the order o, from position j on
RECURSIVE ConfirmInOrder(_, _, _, _, _)
ConfirmInOrder(acc, idx, o, j, f) ==
    IF j > Len(o) THEN Ok(acc)
    ELSE LET r == ConfirmGroup(acc, o[j], idx[o[j]], f)
         IN  IF r.tag = "Err" THEN r
             ELSE ConfirmInOrder(r.val, idx, o, j + 1, f)

\* C20: Confirm does not depend on the order in which the groups of its input
\* are visited: for one input and one filesystem state every visiting order
\* gives the confirmed index this run returned, also when the full digest of
\* a duplicate is the key of another group.
C20_OrderIndependent ==
    pc = "confirmed" =>
        \A o \in Orders(DOMAIN src) :
            ConfirmInOrder(EmptyIndex, src, o, 1, fs) = Ok(ret.val)

-----------------------------------------------------------------------------
(* treetool match (main.rs 281-311), then treetool dupes delete without    *)
(* --dry-run on the text it wrote (main.rs 528-549).  Digests and paths    *)
(* are character sequences, since the index goes through the text.  fs is  *)
(* the files under the paths: those the scan listed are regular files.     *)

DelDigests == {DigestA, DigestB}
DelPaths == {PathX, PathYZ}

\* the haystack indexes, read without duplicate tracking
DelHaystacks ==
    UNION {{[k \in K |-> TreeItemDupesFrom(TreeItem(k, pf[k], sf[k]))] :
               pf \in [K -> DelPaths], sf \in [K -> RtSizes]} :
           K \in SUBSET DelDigests}

\* the lists a scan bounded by m returns: every file once, none larger than m
DelScanLists(m) ==
    {l \in SeqUpTo({TreeItem(d, p, s) : d \in DelDigests, p \in DelPaths,
                                        s \in {z \in RtSizes : z <= m}}, MaxList) :
        \A i, j \in 1..Len(l) : i # j => l[i].path # l[j].path}

\* a path of dupes delete holds a regular file or nothing
Present == [kind |-> "file"]
Gone == [kind |-> "none"]

\* the files the scan of l saw, a file or none at the other paths
DelFileSystems(l) ==
    {f \in [DelPaths -> {Present, Gone}] :
        \A i \in 1..Len(l) : f[l[i].path] = Present}

\* d.is_file()
is_file(f, d) == d \in DOMAIN f /\ f[d].kind = "file"

\* lines 541-548, `for d in i.dupes`: the files left after the duplicates ds
\* from position j on
RECURSIVE RemoveFiles(_, _, _)
RemoveFiles(f, ds, j) ==
    IF j > Len(ds) THEN f
    ELSE IF is_file(f, ds[j])
         THEN RemoveFiles([f EXCEPT ![ds[j]] = Gone], ds, j + 1)
         ELSE RemoveFiles(f, ds, j + 1)

\* lines 541-548: the "rm <path>" lines written for the duplicates ds
RECURSIVE RemoveLog(_, _, _)
RemoveLog(f, ds, j) ==
    IF j > Len(ds) THEN <<>>
    ELSE IF is_file(f, ds[j])
         THEN <<"r", "m", " ">> \o ds[j] \o NL
                  \o RemoveLog([f EXCEPT ![ds[j]] = Gone], ds, j + 1)
         ELSE RemoveLog(f, ds, j + 1)

InitDelete ==
    /\ pc = "match"
    /\ with_dupes = FALSE
    /\ src \in DelHaystacks
    /\ ti = src
    /\ ret = NoRet
    /\ list \in DelScanLists(max(src))
    /\ li = 0
    /\ todo = {} /\ out = <<>>
    /\ fs \in DelFileSystems(list)
    /\ haystack_ti = EmptyIndex /\ saved = 0 /\ arg = None /\ q = <<>> /\ max_size = 0
    /\ IdleReader /\ IdleDigest

\* main.rs 308: the output loop of match starts on the index with duplicates
MatchOutput ==
    /\ pc = "matched"
    /\ pc' = "write"
    /\ src' = ti
    /\ todo' = DOMAIN ti
    /\ out' = <<>>
    /\ UNCHANGED <<with_dupes, ti, ret, listVars, readerVars, fs, haystack_ti,
                   saved, arg, q, max_size, digestVars>>

\* main.rs 532-535: dupes delete reads what match wrote, with duplicates
DeleteRead ==
    /\ pc = "write"
    /\ todo = {}
    /\ pc' = "read"
    /\ with_dupes' = TRUE
    /\ ti' = EmptyIndex
    /\ ret' = NoRet
    /\ text' = out
    /\ rest' = out
    /\ line_count' = 0
    /\ last_digest' = Dash
    /\ UNCHANGED <<listVars, indexVars, digestVars>>

\* main.rs 539-540: the log is opened, the loop over the groups starts
DeleteStart ==
    /\ pc = "loaded"
    /\ pc' = "delete"
    /\ todo' = DOMAIN ti
    /\ out' = <<>>
    /\ UNCHANGED <<with_dupes, ti, ret, listVars, readerVars, src, fs, haystack_ti,
                   saved, arg, q, max_size, digestVars>>

\* main.rs 540-549: one group, every duplicate that is a file is removed
DeleteGroup(k) ==
    /\ pc = "delete"
    /\ k \in todo
    /\ out' = out \o RemoveLog(fs, ti[k].dupes, 1)
    /\ fs' = RemoveFiles(fs, ti[k].dupes, 1)
    /\ todo' = todo \ {k}
    /\ UNCHANGED <<commonVars, listVars, readerVars, src, haystack_ti, saved, arg,
                   q, max_size, digestVars>>

\* main.rs 549-555: every group is done
DeleteEnd ==
    /\ pc = "delete"
    /\ todo = {}
    /\ pc' = "deleted"
    /\ UNCHANGED <<with_dupes, ti, ret, listVars, readerVars, indexVars, digestVars>>

NextDelete ==
    \/ MatchStep
    \/ MatchEnd
    \/ MatchOutput
    \/ \E k \in todo : WriteGroup(k)
    \/ DeleteRead
    \/ ReadLine
    \/ ReadEnd
    \/ DeleteStart
    \/ \E k \in todo : DeleteGroup(k)
    \/ DeleteEnd

SpecDelete == InitDelete /\ [][NextDelete]_vars

\* the paths of the records of the scanned list
ScannedPaths == {list[i].path : i \in 1..Len(list)}

\* C21: after match-against-tree no group's duplicate list contains the path
\* of the group's own primary record, also when the scanned tree holds the
\* files the haystack was built from; and dupes delete run on what match
\* wrote leaves in place every primary file the scan saw.
C21_PrimaryKept ==
    /\ pc = "matched" =>
          \A k \in DOMAIN ret.val :
              \A j \in 1..Len(ret.val[k].dupes) :
                  ret.val[k].dupes[j] # ret.val[k].item.path
    /\ pc = "deleted" =>
          \A k \in DOMAIN ti :
              ti[k].item.path \in ScannedPaths => is_file(fs, ti[k].item.path)

-----------------------------------------------------------------------------
\* C22: every key of the index the Reader builds is the digest token of a
\* primary line it has read, and the size of the group is the size read from
\* such a line: a line "- <path>" that comes before any primary line creates
\* no group, so that no group is stored under the key "-".
C22_KeysFromPrimaries ==
    \A k \in DOMAIN ti :
        /\ k # Dash
        /\ \E i \in PrimariesUpTo(line_count) :
              /\ ParseLine(LineAt(i), i).val.digest = k
              /\ ParseLine(LineAt(i), i).val.size = ti[k].item.size

=============================================================================
